---- MODULE Spec2Model ----
(***************************************************************************)
(* Model of homework.py, the fitness-tracker calculation module: the       *)
(* classes InfoMessage, Training, Running, SportsWalking and Swimming, the *)
(* dispatcher read_package, the function main and the __main__ loop.       *)
(*                                                                         *)
(* Numbers.  The program computes with Python floats.  The model computes  *)
(* with exact rationals [n |-> numerator, d |-> denominator], kept in      *)
(* lowest terms with d > 0, so a value of the model is the real number the *)
(* float approximates.  A division by zero raises ZeroDivisionError in     *)
(* Python; the model encodes the raised exception as the value with d = 0, *)
(* which every later operation of the same expression propagates, as the   *)
(* exception unwinds the expression.                                       *)
(***************************************************************************)
EXTENDS Integers, Sequences, FiniteSets, TLC

VARIABLES
    workout_type,  \* the code given to read_package
    data,          \* the argument list given to read_package
    training,      \* the object read_package returned, or None
    exc,           \* the exception that ended the run, or None
    ret,           \* what the last getter called returned
    called,        \* the last method or function that returned
    infos,         \* the records show_training_info returned to the caller
    calls,         \* the number of calls made on the object
    packages,      \* the list the __main__ loop runs over
    idx,           \* the position of the loop in packages
    stdout,        \* the lines printed
    pc             \* where the run is

vars == <<workout_type, data, training, exc, ret, called, infos, calls,
          packages, idx, stdout, pc>>

(***************************************************************************)
(* Exact rational arithmetic standing for Python's float arithmetic.       *)
(***************************************************************************)
Abs(x) == IF x < 0 THEN -x ELSE x

RECURSIVE GCD(_, _)
GCD(a, b) == IF b = 0 THEN a ELSE GCD(b, a % b)

\* The value a raised ZeroDivisionError leaves in place of a number.
ZeroDivisionError == [n |-> 0, d |-> 0]

Raised(x) == x.d = 0

\* n/d in lowest terms with a positive denominator (d # 0).
Rat(n, d) ==
    LET g == GCD(Abs(n), Abs(d))
        s == IF d < 0 THEN -1 ELSE 1
    IN  [n |-> (s * n) \div g, d |-> (s * d) \div g]

FromInt(i) == [n |-> i, d |-> 1]

\* The sum over the least common denominator, to keep the integers small.
RAdd(x, y) ==
    IF Raised(x) \/ Raised(y) THEN ZeroDivisionError
    ELSE LET g == GCD(x.d, y.d)
         IN  Rat(x.n * (y.d \div g) + y.n * (x.d \div g), (x.d \div g) * y.d)

RSub(x, y) ==
    IF Raised(x) \/ Raised(y) THEN ZeroDivisionError
    ELSE LET g == GCD(x.d, y.d)
         IN  Rat(x.n * (y.d \div g) - y.n * (x.d \div g), (x.d \div g) * y.d)

\* The product, reduced crosswise before it is multiplied out.
RMul(x, y) ==
    IF Raised(x) \/ Raised(y) THEN ZeroDivisionError
    ELSE LET g1 == GCD(Abs(x.n), y.d)
             g2 == GCD(Abs(y.n), x.d)
         IN  Rat((x.n \div g1) * (y.n \div g2), (x.d \div g2) * (y.d \div g1))

\* Python's x / y: raises ZeroDivisionError when y is zero.
RDiv(x, y) ==
    IF Raised(x) \/ Raised(y) \/ y.n = 0 THEN ZeroDivisionError
    ELSE RMul(x, Rat(y.d, y.n))

\* Python's x // y on floats: the floor of the quotient, as a float;
\* raises ZeroDivisionError when y is zero.
RFloorDiv(x, y) ==
    IF Raised(x) \/ Raised(y) \/ y.n = 0 THEN ZeroDivisionError
    ELSE LET q == RMul(x, Rat(y.d, y.n))
         IN  FromInt(q.n \div q.d)

RLess(x, y) == x.n * y.d < y.n * x.d

RLeq(x, y) == x.n * y.d <= y.n * x.d

(***************************************************************************)
(* The absent values: Python's None for an object, an exception, a record. *)
(***************************************************************************)
NoTraining == [cls |-> "None"]

NoExc == [type |-> "None", key |-> ""]

NoRet == FromInt(0)

(***************************************************************************)
(* class InfoMessage                                                       *)
(***************************************************************************)
InfoMessage(training_type, duration, distance, speed, calories) ==
    [training_type |-> training_type,
     duration      |-> duration,
     distance      |-> distance,
     speed         |-> speed,
     calories      |-> calories]

\* The format specification .3f: the value rounded to the nearest thousandth
\* (a tie goes to the even thousandth), given here as a count of thousandths.
Format3f(x) ==
    LET q   == RMul(x, FromInt(1000))
        fl  == q.n \div q.d
        rem == q.n - fl * q.d
    IN  IF 2 * rem < q.d THEN fl
        ELSE IF 2 * rem > q.d THEN fl + 1
        ELSE IF fl % 2 = 0 THEN fl ELSE fl + 1

\* InfoMessage.get_message: the five fields in the order of the f-string, the
\* numeric ones formatted by .3f; the fixed text between them is left out.
get_message(self) ==
    <<self.training_type,
      Format3f(FromInt(self.duration)),
      Format3f(self.distance),
      Format3f(self.speed),
      Format3f(self.calories)>>

(***************************************************************************)
(* class Training and its subclasses                                       *)
(***************************************************************************)
M_IN_KM == 1000

Training_LEN_STEP == Rat(65, 100)

SportsWalking_LEN_STEP == Rat(65, 100)

Swimming_LEN_STEP == Rat(138, 100)

\* Training.__init__: the three common attributes, the class name as the
\* label, and calories = 0.
Training__init__(cls, action, duration, weight) ==
    [cls           |-> cls,
     action        |-> action,
     duration      |-> duration,
     weight        |-> weight,
     training_type |-> cls,
     calories      |-> 0]

Running__init__(d) == Training__init__("Running", d[1], d[2], d[3])

\* SportsWalking.__init__: super().__init__, then the height.
SportsWalking__init__(d) ==
    Training__init__("SportsWalking", d[1], d[2], d[3]) @@ [height |-> d[4]]

\* Swimming.__init__ also sets LEN_STEP as an attribute of the instance.
Swimming__init__(d) ==
    Training__init__("Swimming", d[1], d[2], d[3])
        @@ [LEN_STEP    |-> Swimming_LEN_STEP,
            length_pool |-> d[4],
            count_pool  |-> d[5]]

\* The attribute lookup self.LEN_STEP: the instance, then the class, then
\* the base class.
LEN_STEP(self) ==
    CASE self.cls = "Swimming"      -> self.LEN_STEP
      [] self.cls = "SportsWalking" -> SportsWalking_LEN_STEP
      [] OTHER                      -> Training_LEN_STEP

get_distance(self) ==
    RDiv(RMul(FromInt(self.action), LEN_STEP(self)), FromInt(M_IN_KM))

\* A Training.get_mean_speed that answers 0 for a zero duration.
Training_get_mean_speed_Guarded(self) ==
    IF self.duration = 0 THEN FromInt(0)
    ELSE RDiv(get_distance(self), FromInt(self.duration))

Training_get_mean_speed(self) ==
    RDiv(get_distance(self), FromInt(self.duration))

Swimming_get_mean_speed(self) ==
    RDiv(RDiv(FromInt(self.length_pool * self.count_pool), FromInt(M_IN_KM)),
         FromInt(self.duration))

\* A get_mean_speed that Swimming does not override.
get_mean_speed_NotOverridden(self) == Training_get_mean_speed(self)

\* The method self.get_mean_speed() resolves to: Swimming overrides it.
get_mean_speed(self) ==
    IF self.cls = "Swimming" THEN Swimming_get_mean_speed(self)
    ELSE Training_get_mean_speed(self)

\* Running.get_spent_calories with the duration left in hours.
Running_get_spent_calories_Hours(self) ==
    RMul(RDiv(RMul(RSub(RMul(FromInt(18), get_mean_speed(self)), FromInt(20)),
                   FromInt(self.weight)),
              FromInt(M_IN_KM)),
         FromInt(self.duration))

Running_get_spent_calories(self) ==
    LET coeff_calorie_1  == FromInt(18)
        coeff_calorie_2  == FromInt(20)
        mean_speed       == get_mean_speed(self)
        weight           == FromInt(self.weight)
        duration_minutes == FromInt(self.duration * 60)
    IN  RMul(RDiv(RMul(RSub(RMul(coeff_calorie_1, mean_speed), coeff_calorie_2),
                       weight),
                  FromInt(M_IN_KM)),
             duration_minutes)

\* SportsWalking.get_spent_calories with the quotient rounded to the nearest
\* integer, round(mean_speed ** 2 / height), where the code floors it.
SportsWalking_get_spent_calories_Rounded(self) ==
    LET weight     == FromInt(self.weight)
        mean_speed == get_mean_speed(self)
        height     == FromInt(self.height)
    IN  RMul(RAdd(RMul(Rat(35, 1000), weight),
                  RMul(RMul(RFloorDiv(RAdd(RMul(mean_speed, mean_speed),
                                           RDiv(height, FromInt(2))),
                                      height),
                            Rat(29, 1000)),
                       weight)),
             FromInt(self.duration * 60))

SportsWalking_get_spent_calories(self) ==
    LET coeff_calorie_1  == Rat(35, 1000)
        coeff_calorie_2  == Rat(29, 1000)
        weight           == FromInt(self.weight)
        mean_speed       == get_mean_speed(self)
        height           == FromInt(self.height)
        duration_minutes == FromInt(self.duration * 60)
    IN  RMul(RAdd(RMul(coeff_calorie_1, weight),
                  RMul(RMul(RFloorDiv(RMul(mean_speed, mean_speed), height),
                            coeff_calorie_2),
                       weight)),
             duration_minutes)

\* Swimming.get_spent_calories without the factor 2.
Swimming_get_spent_calories_NoFactor(self) ==
    RMul(RAdd(get_mean_speed(self), Rat(11, 10)), FromInt(self.weight))

Swimming_get_spent_calories(self) ==
    LET coeff_calorie_1 == Rat(11, 10)
    IN  RMul(RMul(RAdd(get_mean_speed(self), coeff_calorie_1), FromInt(2)),
             FromInt(self.weight))

\* The method self.get_spent_calories() resolves to.
get_spent_calories(self) ==
    CASE self.cls = "Running"       -> Running_get_spent_calories(self)
      [] self.cls = "SportsWalking" -> SportsWalking_get_spent_calories(self)
      [] self.cls = "Swimming"      -> Swimming_get_spent_calories(self)

\* Training.show_training_info raises when one of the values of value_dict
\* does (get_distance never divides by anything but M_IN_KM).
show_training_info_raises(self) ==
    Raised(get_mean_speed(self)) \/ Raised(get_spent_calories(self))

\* Training.show_training_info, when it returns.
show_training_info(self) ==
    InfoMessage(self.training_type,
                self.duration,
                get_distance(self),
                get_mean_speed(self),
                get_spent_calories(self))

(***************************************************************************)
(* read_package                                                            *)
(***************************************************************************)
\* The table with 'SWM' and 'WLK' exchanged.
class_links_Swapped ==
    [SWM |-> "SportsWalking", RUN |-> "Running", WLK |-> "Swimming"]

class_links ==
    [SWM |-> "Swimming", RUN |-> "Running", WLK |-> "SportsWalking"]

\* The number of positional arguments the class's __init__ takes after self.
Arity(cls) ==
    CASE cls = "Running"       -> 3
      [] cls = "SportsWalking" -> 4
      [] cls = "Swimming"      -> 5

\* The call cls(*d) with Len(d) = Arity(cls).
Construct(cls, d) ==
    CASE cls = "Running"       -> Running__init__(d)
      [] cls = "SportsWalking" -> SportsWalking__init__(d)
      [] cls = "Swimming"      -> Swimming__init__(d)

KeyError(key) == [type |-> "KeyError", key |-> key]

TypeError == [type |-> "TypeError", key |-> ""]

ZeroDivisionExc == [type |-> "ZeroDivisionError", key |-> ""]

\* A read_package whose handler swallows the KeyError and returns None.
read_package_Swallow(wt, d) ==
    IF wt \notin DOMAIN class_links
    THEN [training |-> NoTraining, exc |-> NoExc]
    ELSE IF Len(d) # Arity(class_links[wt])
         THEN [training |-> NoTraining, exc |-> TypeError]
         ELSE [training |-> Construct(class_links[wt], d), exc |-> NoExc]

\* A read_package that passes the class only as many arguments as it takes.
read_package_Truncate(wt, d) ==
    IF wt \notin DOMAIN class_links
    THEN [training |-> NoTraining, exc |-> KeyError(wt)]
    ELSE IF Len(d) < Arity(class_links[wt])
         THEN [training |-> NoTraining, exc |-> TypeError]
         ELSE [training |-> Construct(class_links[wt], d), exc |-> NoExc]

\* read_package: what it returns (training) or raises (exc).  The lookup
\* class_links[workout_type] raises KeyError, which the handler re-raises;
\* a call with the wrong number of arguments raises TypeError, which no
\* handler catches.
read_package(wt, d) ==
    IF wt \notin DOMAIN class_links
    THEN [training |-> NoTraining, exc |-> KeyError(wt)]
    ELSE IF Len(d) # Arity(class_links[wt])
         THEN [training |-> NoTraining, exc |-> TypeError]
         ELSE [training |-> Construct(class_links[wt], d), exc |-> NoExc]

(***************************************************************************)
(* The inputs.                                                             *)
(***************************************************************************)
MaxArgs == 6

MaxCalls == 3

MaxPackages == 3

Codes == {"SWM", "RUN", "WLK", "XXX"}

\* The values tried at each position of the argument list.
Field(i) ==
    CASE i = 1 -> {720, 9000, 15000}
      [] i = 2 -> {-1, 0, 1, 2}
      [] i = 3 -> {75, 80}
      [] i = 4 -> {25, 50, 180}
      [] i = 5 -> {40}
      [] OTHER -> {1}

RECURSIVE ArgListsOfLen(_)
ArgListsOfLen(n) ==
    IF n = 0 THEN {<<>>}
    ELSE {Append(s, x) : s \in ArgListsOfLen(n - 1), x \in Field(n)}

ArgLists == UNION {ArgListsOfLen(n) : n \in 0..MaxArgs}

\* The packages of the __main__ block.
DemoPackages ==
    << <<"SWM", <<720, 1, 80, 25, 40>>>>,
       <<"RUN", <<15000, 1, 75>>>>,
       <<"WLK", <<9000, 1, 75, 180>>>> >>

\* The tuples the loop is tried on: the three of the __main__ block, and
\* tuples with an unknown code, a missing argument, a zero and a negative
\* duration.
LoopTuples ==
    {DemoPackages[i] : i \in 1..Len(DemoPackages)}
    \cup { <<"XXX", <<720, 1, 80, 25, 40>>>>,
           <<"RUN", <<15000, 1>>>>,
           <<"RUN", <<15000, 0, 75>>>>,
           <<"WLK", <<9000, -1, 75, 180>>>> }

RECURSIVE PackageListsOfLen(_)
PackageListsOfLen(n) ==
    IF n = 0 THEN {<<>>}
    ELSE {Append(s, t) : s \in PackageListsOfLen(n - 1), t \in LoopTuples}

PackageLists == UNION {PackageListsOfLen(n) : n \in 0..MaxPackages}

(***************************************************************************)
(* main                                                                    *)
(***************************************************************************)
main_raises(t) == show_training_info_raises(t)

\* The line main prints, when show_training_info returns.
main_prints(t) == get_message(show_training_info(t))

(***************************************************************************)
(* Spec: a caller of the module.  It reads one package, then calls the     *)
(* methods of the object in any order; an exception ends the run.          *)
(***************************************************************************)
Init ==
    /\ workout_type \in Codes
    /\ data \in ArgLists
    /\ training = NoTraining
    /\ exc = NoExc
    /\ ret = NoRet
    /\ called = "none"
    /\ infos = <<>>
    /\ calls = 0
    /\ packages = <<>>
    /\ idx = 0
    /\ stdout = <<>>
    /\ pc = "start"

ReadPackage ==
    /\ pc = "start"
    /\ LET r == read_package(workout_type, data)
       IN  /\ training' = r.training
           /\ exc' = r.exc
           /\ pc' = IF r.exc = NoExc THEN "ready" ELSE "raised"
    /\ UNCHANGED <<workout_type, data, ret, called, infos, calls,
                   packages, idx, stdout>>

CallGetDistance ==
    /\ pc = "ready"
    /\ calls < MaxCalls
    /\ ret' = get_distance(training)
    /\ called' = "get_distance"
    /\ calls' = calls + 1
    /\ UNCHANGED <<workout_type, data, training, exc, infos,
                   packages, idx, stdout, pc>>

CallGetMeanSpeed ==
    /\ pc = "ready"
    /\ calls < MaxCalls
    /\ calls' = calls + 1
    /\ LET r == get_mean_speed(training)
       IN  IF Raised(r)
           THEN /\ exc' = ZeroDivisionExc
                /\ pc' = "raised"
                /\ UNCHANGED <<ret, called>>
           ELSE /\ ret' = r
                /\ called' = "get_mean_speed"
                /\ UNCHANGED <<exc, pc>>
    /\ UNCHANGED <<workout_type, data, training, infos,
                   packages, idx, stdout>>

\* A get_spent_calories that stores the duration in minutes in the object.
CallGetSpentCalories_Mutating ==
    /\ pc = "ready"
    /\ calls < MaxCalls
    /\ calls' = calls + 1
    /\ LET r == get_spent_calories(training)
       IN  IF Raised(r)
           THEN /\ exc' = ZeroDivisionExc
                /\ pc' = "raised"
                /\ UNCHANGED <<ret, called, training>>
           ELSE /\ ret' = r
                /\ called' = "get_spent_calories"
                /\ training' = [training EXCEPT !.duration = @ * 60]
                /\ UNCHANGED <<exc, pc>>
    /\ UNCHANGED <<workout_type, data, infos,
                   packages, idx, stdout>>

CallGetSpentCalories ==
    /\ pc = "ready"
    /\ calls < MaxCalls
    /\ calls' = calls + 1
    /\ LET r == get_spent_calories(training)
       IN  IF Raised(r)
           THEN /\ exc' = ZeroDivisionExc
                /\ pc' = "raised"
                /\ UNCHANGED <<ret, called>>
           ELSE /\ ret' = r
                /\ called' = "get_spent_calories"
                /\ UNCHANGED <<exc, pc>>
    /\ UNCHANGED <<workout_type, data, training, infos,
                   packages, idx, stdout>>

CallShowTrainingInfo ==
    /\ pc = "ready"
    /\ calls < MaxCalls
    /\ calls' = calls + 1
    /\ IF show_training_info_raises(training)
       THEN /\ exc' = ZeroDivisionExc
            /\ pc' = "raised"
            /\ UNCHANGED <<infos, called>>
       ELSE /\ infos' = Append(infos, show_training_info(training))
            /\ called' = "show_training_info"
            /\ UNCHANGED <<exc, pc>>
    /\ UNCHANGED <<workout_type, data, training, ret, packages, idx, stdout>>

CallMain ==
    /\ pc = "ready"
    /\ calls < MaxCalls
    /\ calls' = calls + 1
    /\ IF main_raises(training)
       THEN /\ exc' = ZeroDivisionExc
            /\ pc' = "raised"
            /\ UNCHANGED <<stdout, called>>
       ELSE /\ stdout' = Append(stdout, main_prints(training))
            /\ called' = "main"
            /\ UNCHANGED <<exc, pc>>
    /\ UNCHANGED <<workout_type, data, training, ret, infos,
                   packages, idx>>

Next ==
    \/ ReadPackage
    \/ CallGetDistance
    \/ CallGetMeanSpeed
    \/ CallGetSpentCalories
    \/ CallShowTrainingInfo
    \/ CallMain

Spec == Init /\ [][Next]_vars

(***************************************************************************)
(* SpecMain: the __main__ block, run on a list of packages.                *)
(***************************************************************************)
InitMain ==
    /\ packages \in PackageLists
    /\ idx = 1
    /\ pc = "loop"
    /\ workout_type = ""
    /\ data = <<>>
    /\ training = NoTraining
    /\ exc = NoExc
    /\ ret = NoRet
    /\ called = "none"
    /\ infos = <<>>
    /\ calls = 0
    /\ stdout = <<>>

\* A loop that reports a tuple read_package rejects and goes on to the next.
LoopReadPackage_Skip ==
    /\ pc = "loop"
    /\ idx <= Len(packages)
    /\ workout_type' = packages[idx][1]
    /\ data' = packages[idx][2]
    /\ LET r == read_package(packages[idx][1], packages[idx][2])
       IN  IF r.exc = NoExc
           THEN /\ training' = r.training
                /\ pc' = "main"
                /\ UNCHANGED <<exc, idx>>
           ELSE /\ idx' = idx + 1
                /\ UNCHANGED <<training, exc, pc>>
    /\ UNCHANGED <<ret, called, infos, calls, packages, stdout>>

\* for workout_type, data in packages: training = read_package(...).
\* An exception of read_package is caught nowhere and ends the program.
LoopReadPackage ==
    /\ pc = "loop"
    /\ idx <= Len(packages)
    /\ workout_type' = packages[idx][1]
    /\ data' = packages[idx][2]
    /\ LET r == read_package(packages[idx][1], packages[idx][2])
       IN  IF r.exc = NoExc
           THEN /\ training' = r.training
                /\ pc' = "main"
                /\ UNCHANGED exc
           ELSE /\ exc' = r.exc
                /\ pc' = "crashed"
                /\ UNCHANGED training
    /\ UNCHANGED <<ret, called, infos, calls, packages, idx,
                   stdout>>

\* main(training), then the next iteration.
LoopMain ==
    /\ pc = "main"
    /\ IF main_raises(training)
       THEN /\ exc' = ZeroDivisionExc
            /\ pc' = "crashed"
            /\ UNCHANGED <<stdout, idx>>
       ELSE /\ stdout' = Append(stdout, main_prints(training))
            /\ idx' = idx + 1
            /\ pc' = "loop"
            /\ UNCHANGED exc
    /\ UNCHANGED <<workout_type, data, training, ret, called, infos, calls, packages>>

\* The list is exhausted: the program ends.
LoopDone ==
    /\ pc = "loop"
    /\ idx > Len(packages)
    /\ pc' = "done"
    /\ UNCHANGED <<workout_type, data, training, exc, ret, called, infos, calls, packages, idx, stdout>>

NextMain ==
    \/ LoopReadPackage
    \/ LoopMain
    \/ LoopDone

SpecMain == InitMain /\ [][NextMain]_vars

(***************************************************************************)
(* The claims.                                                             *)
(***************************************************************************)
KnownCodes == {"SWM", "RUN", "WLK"}

\* The number of arguments the spec's table gives each code.
RequiredCount(code) ==
    CASE code = "SWM" -> 5
      [] code = "RUN" -> 3
      [] code = "WLK" -> 4

Dispatched == pc # "start"

UnknownCode == workout_type \notin KnownCodes

WrongCount ==
    /\ workout_type \in KnownCodes
    /\ Len(data) # RequiredCount(workout_type)

RightCount ==
    /\ workout_type \in KnownCodes
    /\ Len(data) = RequiredCount(workout_type)

\* C1, as the spec states it: for a code that is not SWM, RUN or WLK the
\* dispatcher ends in an UnknownWorkoutCode error that carries the code, and
\* no exception leaves it.
C1_Original ==
    (Dispatched /\ UnknownCode) =>
        /\ pc # "raised"
        /\ exc.type = "UnknownWorkoutCode"
        /\ exc.key = workout_type

\* C1, amended: for a code that is not SWM, RUN or WLK, whatever the argument
\* list, read_package raises KeyError carrying the code (its handler
\* re-raises it) and returns no object.
C1_UnknownCodeRaisesKeyError ==
    (Dispatched /\ UnknownCode) =>
        /\ pc = "raised"
        /\ exc = [type |-> "KeyError", key |-> workout_type]
        /\ training = NoTraining

C1_Witness ==
    /\ pc = "raised"
    /\ workout_type = "XXX"
    /\ Len(data) = 5
    /\ exc.type = "KeyError"

\* C2, as the spec states it: for a known code and an argument list of the
\* wrong length the dispatcher returns an InvalidArgumentCount error, no
\* exception leaves it, and no object is produced.
C2_Original ==
    (Dispatched /\ WrongCount) =>
        /\ pc # "raised"
        /\ exc.type = "InvalidArgumentCount"
        /\ training = NoTraining

\* C2, amended: for a known code and an argument list of the wrong length
\* read_package raises TypeError, which its handler does not catch, and no
\* object is produced.
C2_WrongCountRaisesTypeError ==
    (Dispatched /\ WrongCount) =>
        /\ pc = "raised"
        /\ exc.type = "TypeError"
        /\ training = NoTraining
        /\ infos = <<>>
        /\ stdout = <<>>

C2_Witness ==
    /\ pc = "raised"
    /\ workout_type = "SWM"
    /\ Len(data) = 6
    /\ exc.type = "TypeError"

\* C3: for a known code and an argument list of the matching length
\* read_package returns the variant of the table with the arguments bound in
\* order: SWM Swimming (action, duration, weight, length_pool, count_pool),
\* RUN Running (action, duration, weight), WLK SportsWalking (action,
\* duration, weight, height).
C3_TableAndBinding ==
    (Dispatched /\ RightCount) =>
        /\ training # NoTraining
        /\ exc.type \notin {"KeyError", "TypeError"}
        /\ training.action = data[1]
        /\ training.duration = data[2]
        /\ training.weight = data[3]
        /\ workout_type = "SWM" =>
               /\ training.cls = "Swimming"
               /\ training.length_pool = data[4]
               /\ training.count_pool = data[5]
               /\ DOMAIN training =
                      {"cls", "action", "duration", "weight", "training_type",
                       "calories", "LEN_STEP", "length_pool", "count_pool"}
        /\ workout_type = "RUN" =>
               /\ training.cls = "Running"
               /\ DOMAIN training =
                      {"cls", "action", "duration", "weight", "training_type",
                       "calories"}
        /\ workout_type = "WLK" =>
               /\ training.cls = "SportsWalking"
               /\ training.height = data[4]
               /\ DOMAIN training =
                      {"cls", "action", "duration", "weight", "training_type",
                       "calories", "height"}

C3_Witness ==
    /\ pc = "ready"
    /\ workout_type = "WLK"
    /\ data = <<9000, 1, 75, 180>>
    /\ training.cls = "SportsWalking"
    /\ training.height = 180

\* A tuple the loop body processes without an exception.
Processable(t) ==
    LET r == read_package(t[1], t[2])
    IN  r.exc = NoExc /\ ~main_raises(r.training)

\* The line a processable tuple prints.
LineOf(t) == main_prints(read_package(t[1], t[2]).training)

\* The position of the first tuple of the list that is not processable,
\* Len + 1 when there is none.
FirstFailing(ps) ==
    IF \A i \in 1..Len(ps) : Processable(ps[i]) THEN Len(ps) + 1
    ELSE CHOOSE i \in 1..Len(ps) :
             /\ ~Processable(ps[i])
             /\ \A j \in 1..(i - 1) : Processable(ps[j])

RECURSIVE LinesOfProcessable(_)
LinesOfProcessable(ps) ==
    IF ps = <<>> THEN <<>>
    ELSE IF Processable(Head(ps))
         THEN <<LineOf(Head(ps))>> \o LinesOfProcessable(Tail(ps))
         ELSE LinesOfProcessable(Tail(ps))

Terminated == pc \in {"done", "crashed"}

\* C4, as the spec states it: on a list whose tuples are valid or have an
\* unrecognised code, the loop does not crash and, when it has ended, every
\* valid tuple has yielded exactly one output line, wherever it stands
\* relative to the tuples with an unrecognised code.
C4_Original ==
    ( /\ Terminated
      /\ \A i \in 1..Len(packages) :
             Processable(packages[i]) \/ packages[i][1] \notin KnownCodes )
    => /\ pc = "done"
       /\ stdout = LinesOfProcessable(packages)

\* C4, amended: the first tuple of the list that raises (an unrecognised
\* code raises KeyError) ends the program with the exception uncaught; the
\* tuples before it have each yielded exactly one output line, in order,
\* and no tuple after it is dispatched or printed.  The loop ends normally
\* only when no tuple raises.
C4_LoopStopsAtFirstFailure ==
    LET f == FirstFailing(packages)
    IN  /\ idx <= f
        /\ Len(stdout) = idx - 1
        /\ \A k \in 1..Len(stdout) : stdout[k] = LineOf(packages[k])
        /\ pc = "done" => f = Len(packages) + 1 /\ idx = f
        /\ pc = "crashed" =>
               /\ idx = f
               /\ f <= Len(packages)
               /\ packages[f][1] \notin KnownCodes =>
                      exc = [type |-> "KeyError", key |-> packages[f][1]]
        /\ (pc = "loop" /\ idx > 1) => exc = NoExc

C4_Witness ==
    /\ pc = "crashed"
    /\ exc.type = "KeyError"
    /\ Len(stdout) >= 1
    /\ idx < Len(packages)
    /\ Processable(packages[idx + 1])

\* |x - y| <= 1/10000, the tolerance of a comparison of floats.
Near(x, y) ==
    LET r == RSub(x, y)
    IN  Abs(r.n) < r.d /\ Abs(r.n) * 10000 <= r.d

\* The values the methods of the object have returned to the caller: true
\* when each getter's last result and every record satisfy the predicates.
DistanceIs(P(_)) ==
    /\ called = "get_distance" => P(ret)
    /\ \A i \in 1..Len(infos) : P(infos[i].distance)

SpeedIs(P(_)) ==
    /\ called = "get_mean_speed" => P(ret)
    /\ \A i \in 1..Len(infos) : P(infos[i].speed)

CaloriesIs(P(_)) ==
    /\ called = "get_spent_calories" => P(ret)
    /\ \A i \in 1..Len(infos) : P(infos[i].calories)

IsRunningExample ==
    /\ training.cls = "Running"
    /\ training.action = 15000
    /\ training.duration = 1
    /\ training.weight = 75

\* C5, as the spec states it: Running(15000, 1, 75) has distance 9.75 km,
\* mean speed 9.75 km/h and calories about 873.3375.
C5_Original ==
    IsRunningExample =>
        /\ DistanceIs(LAMBDA x : Near(x, Rat(975, 100)))
        /\ SpeedIs(LAMBDA x : Near(x, Rat(975, 100)))
        /\ CaloriesIs(LAMBDA x : Near(x, Rat(8733375, 10000)))

\* C5, amended: Running(15000, 1, 75) has distance 9.75 km, mean speed
\* 9.75 km/h and calories 699.75 = (18 * 9.75 - 20) * 75 / 1000 * 60.
C5_RunningExample ==
    IsRunningExample =>
        /\ DistanceIs(LAMBDA x : Near(x, Rat(975, 100)))
        /\ SpeedIs(LAMBDA x : Near(x, Rat(975, 100)))
        /\ CaloriesIs(LAMBDA x : Near(x, Rat(69975, 100)))

C5_Witness ==
    /\ IsRunningExample
    /\ called = "get_spent_calories"
    /\ ret = Rat(69975, 100)
    /\ Len(infos) >= 1

IsSwimmingExample ==
    /\ training.cls = "Swimming"
    /\ training.action = 720
    /\ training.duration = 1
    /\ training.weight = 80
    /\ training.length_pool = 25
    /\ training.count_pool = 40

\* C6, as the spec states it: Swimming(720, 1, 80, 25, 40) has mean speed
\* 1.0 km/h and calories 168.0.
C6_Original ==
    IsSwimmingExample =>
        /\ SpeedIs(LAMBDA x : Near(x, FromInt(1)))
        /\ CaloriesIs(LAMBDA x : Near(x, FromInt(168)))

\* C6, amended: Swimming(720, 1, 80, 25, 40) has mean speed 1.0 km/h and
\* calories 336.0 = (1.0 + 1.1) * 2 * 80.
C6_SwimmingExample ==
    IsSwimmingExample =>
        /\ SpeedIs(LAMBDA x : Near(x, FromInt(1)))
        /\ CaloriesIs(LAMBDA x : Near(x, FromInt(336)))

C6_Witness ==
    /\ IsSwimmingExample
    /\ called = "get_spent_calories"
    /\ ret = FromInt(336)
    /\ Len(infos) >= 1

IsWalking ==
    /\ training.cls = "SportsWalking"
    /\ training.duration > 0
    /\ training.weight > 0
    /\ training.height > 0

\* The mean speed of a walk, action * 0.65 / 1000 / duration, squared.
WalkSpeedSquared ==
    LET v == Rat(13 * training.action, 20000 * training.duration)
    IN  RMul(v, v)

\* The integer k with k <= x / h < k + 1.
FloorOfQuotient(x, h) ==
    CHOOSE k \in 0..1000 :
        /\ RLeq(FromInt(k * h), x)
        /\ RLess(x, FromInt((k + 1) * h))

\* (0.035 * weight + k * 0.029 * weight) * duration * 60.
WalkCalories(k) ==
    Rat((35 * training.weight + k * 29 * training.weight)
            * training.duration * 60,
        1000)

\* C7: for a walk with positive duration, weight and height the calories
\* are (0.035 * weight + floor(speed^2 / height) * 0.029 * weight)
\* * duration * 60 with the quotient floored; when speed^2 < height they
\* are 0.035 * weight * duration * 60; for (9000, 1, 75, 180) the distance
\* and the speed are 5.85 and the floor term is 0.
C7_WalkingFloorDivision ==
    IsWalking =>
        LET k == FloorOfQuotient(WalkSpeedSquared, training.height)
        IN  /\ CaloriesIs(LAMBDA x : x = WalkCalories(k))
            /\ RLess(WalkSpeedSquared, FromInt(training.height)) =>
                   CaloriesIs(LAMBDA x :
                       x = Rat(35 * training.weight * training.duration * 60,
                               1000))
            /\ ( /\ training.action = 9000
                 /\ training.duration = 1
                 /\ training.weight = 75
                 /\ training.height = 180 ) =>
                   /\ DistanceIs(LAMBDA x : x = Rat(585, 100))
                   /\ SpeedIs(LAMBDA x : x = Rat(585, 100))
                   /\ k = 0
                   /\ CaloriesIs(LAMBDA x : x = Rat(1575, 10))

\* A walk whose squared speed is not a multiple of the height and exceeds
\* it, so that the floor differs from the quotient.
C7_Witness ==
    /\ IsWalking
    /\ FloorOfQuotient(WalkSpeedSquared, training.height) >= 1
    /\ RLess(FromInt(FloorOfQuotient(WalkSpeedSquared, training.height)
                         * training.height),
             WalkSpeedSquared)
    /\ called = "get_spent_calories"
    /\ Len(infos) >= 1

\* C8: the getters and show_training_info leave the object as read_package
\* built it, and every record show_training_info returns, after any calls
\* in any order, has the five field values of the first.
C8_SummaryIdempotent ==
    /\ (Dispatched /\ training # NoTraining) =>
           training = read_package(workout_type, data).training
    /\ \A i \in 1..Len(infos) : infos[i] = infos[1]

C8_Witness ==
    /\ Len(infos) >= 2
    /\ called = "show_training_info"
    /\ calls >= 3
    /\ ret # NoRet

\* A reading read_package accepts.
Accepted == Dispatched /\ RightCount

\* C9, as the spec states it: for a reading whose duration is zero or
\* negative, dispatch then summarise ends in an InvalidArgumentValue error;
\* no division fault is reached and no summary record is produced.
C9_Original ==
    (Accepted /\ data[2] <= 0) =>
        /\ exc.type # "ZeroDivisionError"
        /\ infos = <<>>
        /\ stdout = <<>>
        /\ pc = "raised" => exc.type = "InvalidArgumentValue"

\* C9, amended: nothing checks the duration.  With a zero duration
\* read_package returns the object, get_distance returns, and
\* get_mean_speed, get_spent_calories, show_training_info and main raise
\* ZeroDivisionError, so no summary record is produced and nothing is
\* printed.  With a negative duration (the other fields positive) no call
\* raises, and the summary is produced with the negative duration and a
\* speed that is not positive.
C9_NonPositiveDuration ==
    /\ (Accepted /\ data[2] = 0) =>
           /\ training # NoTraining
           /\ training.duration = 0
           /\ infos = <<>>
           /\ stdout = <<>>
           /\ called \in {"none", "get_distance"}
           /\ exc \in {NoExc, ZeroDivisionExc}
           /\ pc = "raised" <=> exc = ZeroDivisionExc
           /\ pc = "ready" => calls = 0 \/ called = "get_distance"
    /\ (Accepted /\ data[2] < 0) =>
           /\ training # NoTraining
           /\ pc = "ready"
           /\ exc = NoExc
           /\ \A i \in 1..Len(infos) :
                  /\ infos[i].duration = data[2]
                  /\ RLeq(infos[i].speed, FromInt(0))
           /\ called \in {"main", "show_training_info"} =>
                  Len(stdout) + Len(infos) >= 1

C9_Witness ==
    /\ Accepted
    /\ data[2] = 0
    /\ called = "get_distance"
    /\ pc = "raised"
    /\ exc = ZeroDivisionExc

IsSwimming ==
    /\ training.cls = "Swimming"
    /\ training.duration > 0

\* length_pool * count_pool / 1000 / duration.
PoolSpeed ==
    Rat(training.length_pool * training.count_pool, 1000 * training.duration)

\* C10: for a Swimming workout with positive duration the mean speed is
\* length_pool * count_pool / 1000 / duration, whatever the action count;
\* the distance is action * 1.38 / 1000, whatever the pool; the calories
\* are (pool speed + 1.1) * 2 * weight, not built on distance / duration.
C10_SwimmingSpeedOverride ==
    IsSwimming =>
        /\ SpeedIs(LAMBDA x : x = PoolSpeed)
        /\ DistanceIs(LAMBDA x : x = Rat(138 * training.action, 100000))
        /\ CaloriesIs(LAMBDA x :
               x = Rat((10 * PoolSpeed.n + 11 * PoolSpeed.d)
                           * 2 * training.weight,
                       10 * PoolSpeed.d))

\* A swim whose pool speed differs from distance / duration.
C10_Witness ==
    /\ IsSwimming
    /\ PoolSpeed # Rat(138 * training.action, 100000 * training.duration)
    /\ called = "get_spent_calories"
    /\ Len(infos) >= 1
    /\ infos[1].speed = PoolSpeed

====
